---- MODULE Spec2Model ----
(***************************************************************************)
(* Element Highlighter and Downloader, version 1.1: the SelectionManager   *)
(* (tracked selection, indicators, scroll/resize/mutation handling) and    *)
(* the Highlighter's window scroll throttle, as a state machine.           *)
(*                                                                         *)
(* The page is a fixture of four elements and one candidate scroll         *)
(* container.  Time is abstracted: a throttled closure is "recent" while   *)
(* less than throttleMs have passed since its last update, a setTimeout    *)
(* callback fires once its delay has passed, and an animation frame runs   *)
(* every callback queued with requestAnimationFrame.                       *)
(***************************************************************************)
EXTENDS Integers, Sequences, FiniteSets, TLC

\* ------------------------------------------------------------------ bounds
MaxScroll == 1       \* root and container scroll offsets range over 0..MaxScroll
MaxSelected == 3     \* entries of selectedElements
MaxZombies == 1      \* closures that outlive their overlay (still registered, or timer pending)
MaxRaf == 1          \* queued requestAnimationFrame callbacks of updateAllIndicatorPositions (MaxRaf: that many or more)
MaxDetect == 2       \* bound scroll listeners detection has left on the container (MaxDetect: that many or more)
MaxDetached == 1     \* elements the host has out of the document at once
MaxBurst == 2        \* change signals counted at one instant (MaxBurst: that many or more)
MaxWarn == 2         \* console.warn calls counted per missing primitive (MaxWarn: that many or more)
MaxNow == 4          \* clock ticks followed when the closure is run in real time

\* ------------------------------------------------------- the page fixture
\* A: <div id="box">, B: a <div> laid over A with nearly the same box,
\* T: another <div id="box"> inside the scroll container, P: a <p>.
Nodes == {"A", "B", "T", "P"}
NoNode == "none"

\* The elements around them, which the host never takes out of the document:
\* C, the <div> that is the candidate scroll container and holds T, and
\* document.body, which holds A, B, C and P in this order.
Frame == {"C", "body"}

TagName(n) == IF n = "P" THEN "P" ELSE IF n = "body" THEN "BODY" ELSE "DIV"

HtmlId(n) == IF n \in {"A", "T"} THEN "box" ELSE ""

InContainer(n) == n = "T"

DocRect(n) ==
    CASE n = "A" -> [top |-> 10, left |-> 10, width |-> 20, height |-> 20]
      [] n = "B" -> [top |-> 11, left |-> 11, width |-> 18, height |-> 18]
      [] n = "T" -> [top |-> 50, left |-> 10, width |-> 20, height |-> 20]
      [] n = "C" -> [top |-> 45, left |-> 5, width |-> 30, height |-> 30]
      [] n = "body" -> [top |-> 0, left |-> 0, width |-> 60, height |-> 100]
      [] OTHER   -> [top |-> 80, left |-> 10, width |-> 30, height |-> 10]

\* Element.parentElement in the fixture's document (that of body is <html>,
\* which is never hovered and matches no entry)
Parent(n) == IF n = "T" THEN "C" ELSE IF n = "body" THEN NoNode ELSE "body"

\* Element.children, in document order
Children(n) == IF n = "body" THEN <<"A", "B", "C", "P">> ELSE IF n = "C" THEN <<"T">> ELSE <<>>

ZeroRect == [top |-> 0, left |-> 0, width |-> 0, height |-> 0]

VARIABLES
    \* the host page
    dom,                \* the elements of the fixture the targeting layer can reach
    attached,           \* elements currently in the document
    scrollX, scrollY,   \* root view scroll offsets
    cScroll,            \* the container's scrollTop
    cStyle,             \* the container's computed overflow-x/-y and whether its content
                        \* exceeds its box: [ox, oy, wide, tall]
    roSupported,        \* typeof ResizeObserver !== 'undefined'
    moSupported,        \* typeof MutationObserver !== 'undefined'
    \* SelectionManager
    selectedElements,   \* sequence of [element, id]
    indicators,         \* the indicator overlays in document order, each with the
                        \* state of its updateIndicatorPosition closure (see NewIndicator)
    indicatorScrollHandlers, \* Map id -> handler, as a set of <<id, element of the handler>>
    scrollContainers,   \* the set of scroll containers: "window" and the container "C"
    observed,           \* elements the current ResizeObserver observes
    roPending,          \* the ResizeObserver has a notification to deliver
    highlightedElement, \* spotlighted element or NoNode
    highlightOverlay,   \* [display, rect] of the spotlight overlay
    highlightScrollHandler, \* the current spotlight closure (see NoHandler)
    \* closures and listeners
    zombies,            \* bag of closures that outlived their overlay or were replaced
    cDetect,            \* bound updateAllIndicatorPositions listeners on the container
    rafQueue,           \* queued rAF callbacks of updateAllIndicatorPositions
    spotRaf,            \* a rAF callback of a spotlight closure is queued
    msIds,              \* live ids generated during the current millisecond
    moPending,          \* mutation records are queued for the MutationObserver callback
    \* Highlighter
    isActive,
    isDownloading,
    currentElement,     \* the element last hovered while active, or NoNode (null)
    scrollThrottleTimeout, \* Highlighter._scrollThrottleTimeout is set
    scrollWheelCounter, \* wheel movements counted towards the next step, up minus down
    currentHierarchy,   \* the hovered element and its ancestors, innermost first
    hierarchyIndex,     \* position of currentElement in currentHierarchy, from 0
    \* UIManager
    overlay,            \* [display, rect] of the hover overlay (position: fixed)
    panel,              \* the selection panel: [display, items], items the elements listed
    \* observation (history) variables
    lastCall,           \* the last call of the interface if no step of the host or of a
                        \* timer followed it: [op, arg, ret] (ret of add: its result, of
                        \* remove: the index was in range, of highlight: the entry
                        \* was stale and has been removed, of wheel: the movement
                        \* changed currentElement), and rep: the last step
                        \* was add(arg) called right after add(arg); op is "pass" after
                        \* a frame that ran updateAllIndicatorPositions' callback
    ghostWrite,         \* the last step wrote the style of an indicator no longer in the document
    warnings,           \* [ro, mo]: console.warn calls about a missing ResizeObserver / MutationObserver
    burst,              \* [signals, passes]: change signals delivered, and repositioning
                        \* passes they started, since time last advanced
    \* the first indicator's closure in real time
    clock               \* the closure's variables against Date.now() (see NewClosure)

pageVars == <<dom, attached, scrollX, scrollY, cScroll, cStyle, roSupported, moSupported>>
selVars == <<selectedElements, indicators, indicatorScrollHandlers, scrollContainers,
             observed, roPending, highlightedElement, highlightOverlay, highlightScrollHandler>>
closureVars == <<zombies, cDetect, rafQueue, spotRaf, msIds, moPending>>
wheelVars == <<scrollWheelCounter, currentHierarchy, hierarchyIndex>>
hlVars == <<isActive, isDownloading, currentElement, scrollThrottleTimeout, wheelVars, overlay>>
obsVars == <<lastCall, ghostWrite, warnings, burst>>
vars == <<pageVars, selVars, closureVars, hlVars, panel, obsVars, clock>>

\* ----------------------------------------------------------------- helpers
Min(S) == CHOOSE x \in S : \A y \in S : x <= y

Abs(x) == IF x < 0 THEN -x ELSE x

Sat(n, cap) == IF n > cap THEN cap ELSE n

RemoveAt(s, i) == SubSeq(s, 1, i - 1) \o SubSeq(s, i + 1, Len(s))

\* Element.getBoundingClientRect() in the layout g: the viewport-relative box;
\* all zeros for an element that is not in the document.
RectIn(n, g) ==
    IF n \notin g.att THEN ZeroRect
    ELSE [top    |-> DocRect(n).top - g.sy - (IF InContainer(n) THEN g.cs ELSE 0),
          left   |-> DocRect(n).left - g.sx,
          width  |-> DocRect(n).width,
          height |-> DocRect(n).height]

Geo == [att |-> attached \cup Frame, sx |-> scrollX, sy |-> scrollY, cs |-> cScroll]

ViewportRect(n) == RectIn(n, Geo)

\* document.body.contains(element)
BodyContains(n) == n \in attached \cup Frame

\* ------------------------------------------------------- scroll containers
\* Computed values of overflow-x and overflow-y: 'visible' on one axis computes
\* to 'auto' when the other axis is not 'visible'.
Styles ==
    {st \in [ox : {"visible", "hidden", "auto", "scroll"},
              oy : {"visible", "hidden", "auto", "scroll"},
              wide : BOOLEAN, tall : BOOLEAN] :
        (st.ox = "visible") <=> (st.oy = "visible")}

PlainStyle == [ox |-> "visible", oy |-> "visible", wide |-> FALSE, tall |-> FALSE]

ScrollStyle == [ox |-> "auto", oy |-> "auto", wide |-> FALSE, tall |-> TRUE]

\* getComputedStyle(el).overflow: the shorthand is one keyword when both axes
\* agree and two keywords otherwise
Overflow(st) == IF st.ox = st.oy THEN st.ox ELSE "two"

\* The isScrollable test of detectScrollContainers
isScrollable(st) ==
    /\ \/ Overflow(st) = "auto"
       \/ Overflow(st) = "scroll"
       \/ st.oy = "auto"
       \/ st.oy = "scroll"
    /\ (st.tall \/ st.wide)

cScrollable == isScrollable(cStyle)

\* The container can be scrolled vertically, so 'scroll' events occur at it
CanScroll(st) == st.oy \in {"auto", "scroll"} /\ st.tall

\* Variant: the list starts empty
ContainersWithoutWindow == IF cScrollable THEN {"C"} ELSE {}

\* this.scrollContainers = [window], then every element passing isScrollable
DetectedContainers == {"window"} \cup (IF cScrollable THEN {"C"} ELSE {})

\* The listeners on the container after detection: removeEventListener is
\* given a fresh bound function and removes nothing, addEventListener adds one
DetectionListeners == IF cScrollable THEN Sat(cDetect + 1, MaxDetect) ELSE cDetect

\* ------------------------------------------------------ throttled closures
\* The state of a throttled closure (updateIndicatorPosition, updatePosition):
\*   recent:  Date.now() - lastUpdateTime < throttleMs
\*   pending: "none", or its setTimeout is "armed" (no update since it was set,
\*            so lastUpdateTime is throttleMs old when it fires), or "superseded"
\*            (an update ran after it was set, so it fires inside the throttle window)
\*   onC:     it is registered for 'scroll' on the container
\* An indicator's closure and the current spotlight closure are registered on
\* window; a zombie is not.

\* One call of the closure: inside the throttle window it sets the trailing
\* timer unless one is pending; outside it stamps lastUpdateTime.
Called(c) ==
    IF c.recent
    THEN [c EXCEPT !.pending = IF @ = "none" THEN "armed" ELSE @]
    ELSE [c EXCEPT !.recent = TRUE, !.pending = IF @ = "none" THEN "none" ELSE "superseded"]

\* The setTimeout callback: the closure is called again, then pendingUpdate = false
Fired(c) == [c EXCEPT !.recent = (c.pending = "armed" \/ @), !.pending = "none"]

NoHandler == [set |-> FALSE, recent |-> FALSE, pending |-> "none", onC |-> FALSE]

Zombie(kind, target, c) ==
    [kind |-> kind, target |-> target, recent |-> c.recent, pending |-> c.pending, onC |-> c.onC]

\* A closure whose overlay is gone is kept while something can still call it
Lingers(c) == c.onC \/ c.pending # "none"

EmptyBag == [x \in {} |-> 0]

BagSize(B) == LET S == DOMAIN B
                  RECURSIVE Sum(_)
                  Sum(T) == IF T = {} THEN 0
                            ELSE LET x == CHOOSE x \in T : TRUE IN B[x] + Sum(T \ {x})
              IN Sum(S)

BagAdd(B, x) ==
    [y \in DOMAIN B \cup {x} |-> (IF y \in DOMAIN B THEN B[y] ELSE 0) + (IF y = x THEN 1 ELSE 0)]

BagRemove(B, x) ==
    [y \in {z \in DOMAIN B : z # x \/ B[z] > 1} |-> IF y = x THEN B[y] - 1 ELSE B[y]]

RECURSIVE BagAddAll(_, _)
BagAddAll(B, xs) == IF xs = <<>> THEN B ELSE BagAddAll(BagAdd(B, Head(xs)), Tail(xs))

\* throttleMs in clock ticks: one tick is 8 ms
ThrottleTicks == 2

\* lastUpdateTime = 0 lies more than throttleMs before any Date.now()
LongAgo == 0 - ThrottleTicks

\* no repositioning yet
NoMove == 0 - (MaxNow + 1)

\* The variables of updateIndicatorPosition when addSelectionIndicator has
\* created it, with the clock (now), the setTimeout calls not yet fired (timers:
\* their due times) and three observations: stale (a scroll event has been
\* delivered since the closure last repositioned), moved (the time it last
\* repositioned) and gap (the shortest time between two repositionings so far,
\* MaxNow + 1 before the second one)
NewClosure ==
    [now |-> 0, lastUpdateTime |-> LongAgo, pendingUpdate |-> FALSE, timers |-> <<>>,
     stale |-> FALSE, moved |-> NoMove, gap |-> MaxNow + 1]

\* ---------------------------------------------------------------------- ids
\* The id `element-${Date.now()}-${Math.floor(Math.random() * 1000)}`.  Ids are
\* only ever compared for equality, so they are kept as small numbers, renamed
\* after every change to their order of first appearance.  A new id is either
\* one no live entry has, or equal to a live id generated in the same
\* millisecond (same Date.now(), same random draw).
LiveIds(sel, inds) == {sel[i].id : i \in DOMAIN sel} \cup {inds[i].id : i \in DOMAIN inds}

FreshId == Cardinality(LiveIds(selectedElements, indicators)) + 1

NewIds == {FreshId} \cup msIds

RECURSIVE FirstSeen(_, _, _)
\* the distinct ids of the entries and then of the indicators, in order
FirstSeen(sel, inds, seen) ==
    IF sel # <<>>
    THEN FirstSeen(Tail(sel), inds,
                   IF \E k \in DOMAIN seen : seen[k] = Head(sel).id THEN seen
                   ELSE Append(seen, Head(sel).id))
    ELSE IF inds # <<>>
    THEN FirstSeen(sel, Tail(inds),
                   IF \E k \in DOMAIN seen : seen[k] = Head(inds).id THEN seen
                   ELSE Append(seen, Head(inds).id))
    ELSE seen

Rank(order, id) == CHOOSE k \in DOMAIN order : order[k] = id

RECURSIVE RenameIds(_, _)
RenameIds(s, order) ==
    IF s = <<>> THEN <<>>
    ELSE <<[Head(s) EXCEPT !.id = Rank(order, @)]>> \o RenameIds(Tail(s), order)

\* document.querySelector(`.element-highlighter-indicator[data-for-element="${id}"]`):
\* position of the first indicator in document order carrying the id, 0 for null.
QueryIndicator(inds, id) ==
    LET hits == {i \in DOMAIN inds : inds[i].id = id}
    IN IF hits = {} THEN 0 ELSE Min(hits)

NoBurst == [signals |-> 0, passes |-> 0]

Signal(passes) ==
    [signals |-> Sat(burst.signals + 1, MaxBurst), passes |-> Sat(burst.passes + passes, MaxBurst)]

\* A task's DOM writes under document.body queue mutation records; the
\* MutationObserver callback runs at the microtask checkpoint after the task.
Mutated(m) == moPending' = (moPending \/ (moSupported /\ m))

\* lastCall after a step that is no call of the selection interface
EnvStep == [op |-> "env", arg |-> NoNode, ret |-> FALSE, rep |-> FALSE]

Call(op, arg, ret) ==
    [op |-> op, arg |-> arg, ret |-> ret,
     rep |-> (op = "add" /\ lastCall.op = "add" /\ lastCall.arg = arg)]

\* ------------------------------------------------------------ initial state
\* The state after Highlighter.init(): SelectionManager.init() has created the
\* spotlight overlay and the observers and run detectScrollContainers once.
InitPage(D, SX, SY, CS, RO, MO) ==
    /\ dom = D
    /\ attached = Nodes
    /\ scrollX \in SX
    /\ scrollY \in SY
    /\ cStyle \in CS
    /\ cScroll = 0
    /\ roSupported \in RO
    /\ moSupported \in MO

InitEngine ==
    /\ selectedElements = <<>>
    /\ indicators = <<>>
    /\ indicatorScrollHandlers = {}
    /\ scrollContainers = DetectedContainers
    /\ observed = {}
    /\ roPending = FALSE
    /\ highlightedElement = NoNode
    /\ highlightOverlay = [display |-> FALSE, rect |-> ZeroRect]
    /\ highlightScrollHandler = NoHandler
    /\ zombies = EmptyBag
    /\ cDetect = IF cScrollable THEN 1 ELSE 0
    /\ rafQueue = 0
    /\ spotRaf = FALSE
    /\ msIds = {}
    /\ moPending = FALSE
    /\ isActive = FALSE
    /\ isDownloading = FALSE
    /\ currentElement = NoNode
    /\ scrollThrottleTimeout = FALSE
    /\ scrollWheelCounter = 0
    /\ currentHierarchy = <<>>
    /\ hierarchyIndex = 0
    /\ overlay = [display |-> FALSE, rect |-> ZeroRect]
    /\ panel = [display |-> FALSE, items |-> <<>>]
    /\ lastCall = EnvStep
    /\ ghostWrite = FALSE
    /\ warnings = [ro |-> IF roSupported THEN 0 ELSE 1, mo |-> IF moSupported THEN 0 ELSE 1]
    /\ burst = NoBurst
    /\ clock = NewClosure

\* a page scrolled down, without scrollable container
Init == InitPage(Nodes, {0}, {MaxScroll}, {PlainStyle}, BOOLEAN, BOOLEAN) /\ InitEngine

\* ------------------------------------------------- SelectionManager: lookup
Overlap(r1, r2) ==
    ~ \/ r1.left + r1.width < r2.left
      \/ r1.left > r2.left + r2.width
      \/ r1.top + r1.height < r2.top
      \/ r1.top > r2.top + r2.height

\* The second findIndex predicate: same tag and (same non-empty id, or
\* overlapping boxes of nearly equal size).
SameVisualElement(item, element) ==
    IF TagName(item) # TagName(element) THEN FALSE
    ELSE IF HtmlId(item) # "" /\ HtmlId(element) # "" /\ HtmlId(item) = HtmlId(element) THEN TRUE
    ELSE LET rect1 == ViewportRect(item)
             rect2 == ViewportRect(element)
         IN /\ Overlap(rect1, rect2)
            /\ Abs(rect1.width - rect2.width) < 5
            /\ Abs(rect1.height - rect2.height) < 5

\* Array.prototype.findIndex with item.element === element, 0-based, -1 if none
ExactMatch(sel, element) ==
    LET hits == {i \in DOMAIN sel : sel[i].element = element}
    IN IF hits = {} THEN -1 ELSE Min(hits) - 1

\* Variant: a lookup that never finds anything
FindNothing(element) == -1

findElementInSelection(element) ==
    LET exactMatch == ExactMatch(selectedElements, element)
        hits == {i \in DOMAIN selectedElements :
                    SameVisualElement(selectedElements[i].element, element)}
    IN IF exactMatch # -1 THEN exactMatch
       ELSE IF hits = {} THEN -1 ELSE Min(hits) - 1

\* --------------------------------------------- SelectionManager: selection
RECURSIVE Listed(_)
\* selectedElements.forEach: one list item per entry, in order
Listed(sel) == IF sel = <<>> THEN <<>> ELSE <<Head(sel).element>> \o Listed(Tail(sel))

\* UIManager.updateSelectionPanel(selectedElements): the list is rebuilt; an
\* empty selection hides the panel only if the highlighter is not active, any
\* other shows it
updateSelectionPanel(sel) ==
    IF Len(sel) = 0
    THEN [display |-> IF ~isActive THEN FALSE ELSE panel.display, items |-> <<>>]
    ELSE [display |-> TRUE, items |-> Listed(sel)]

\* Variant: document coordinates (position: absolute), as in version 0.5
IndicatorRectWithScrollOffset(element) ==
    [ViewportRect(element) EXCEPT !.top = @ + scrollY, !.left = @ + scrollX]

\* The box addSelectionIndicator gives a new indicator (position: fixed)
InitialIndicatorRect(element) == ViewportRect(element)

\* The indicator addSelectionIndicator(element, id) appends to document.body,
\* with its badge and its updateIndicatorPosition closure (lastUpdateTime = 0,
\* pendingUpdate = false), registered on every current scroll container.
\* Its style.display is never set, here or later: the indicator is displayed.
NewIndicator(element, id) ==
    [id |-> id, target |-> element, rect |-> InitialIndicatorRect(element),
     badge |-> Len(selectedElements) + 1, display |-> TRUE,
     recent |-> FALSE, pending |-> "none", onC |-> ("C" \in scrollContainers)]

MapSet(m, id, v) == {e \in m : e[1] # id} \cup {<<id, v>>}

MapDelete(m, id) == {e \in m : e[1] # id}

MapRename(m, order) == {<<Rank(order, e[1]), e[2]>> : e \in m}

\* addElementToSelection(element), with addSelectionIndicator inlined
addElementToSelection(element) ==
    /\ ~moPending
    /\ IF findElementInSelection(element) # -1
       THEN \* UIManager.showNotification('Element already selected'); return false
            /\ lastCall' = Call("add", element, FALSE)
            /\ Mutated(TRUE)
            /\ ghostWrite' = FALSE
            /\ UNCHANGED <<warnings, panel>>
            /\ UNCHANGED <<pageVars, selVars, zombies, cDetect, rafQueue, spotRaf, msIds,
                           hlVars>>
       ELSE /\ Len(selectedElements) < MaxSelected
            /\ \E id \in NewIds :
                 LET inds == Append(indicators, NewIndicator(element, id))
                     sel == Append(selectedElements, [element |-> element, id |-> id])
                     order == FirstSeen(sel, inds, <<>>)
                 IN /\ indicators' = RenameIds(inds, order)
                    /\ selectedElements' = RenameIds(sel, order)
                    /\ indicatorScrollHandlers' =
                          MapRename(MapSet(indicatorScrollHandlers, id, element), order)
                    /\ msIds' = {Rank(order, x) : x \in msIds \cup {id}}
            /\ observed' = IF roSupported THEN observed \cup {element} ELSE observed
            /\ roPending' = (roPending \/ (roSupported /\ element \notin observed
                                            /\ BodyContains(element)))
            /\ panel' = updateSelectionPanel(Append(selectedElements, [element |-> element, id |-> 0]))
            /\ lastCall' = Call("add", element, TRUE)
            /\ Mutated(TRUE)
            /\ ghostWrite' = FALSE
            /\ UNCHANGED warnings
            /\ UNCHANGED <<pageVars, scrollContainers, highlightedElement, highlightOverlay,
                           highlightScrollHandler, zombies, cDetect, rafQueue, spotRaf,
                           hlVars>>

RECURSIVE Renumber(_, _)
\* indicators.forEach((ind, i) => badge.textContent = i + 1), k = i + 1
Renumber(inds, k) ==
    IF inds = <<>> THEN <<>>
    ELSE <<[Head(inds) EXCEPT !.badge = k]>> \o Renumber(Tail(inds), k + 1)

\* removeEventListener('scroll', indicator.scrollHandler) on every current
\* scroll container: window, and the container if it is listed
Unregistered(c) == [c EXCEPT !.onC = IF "C" \in scrollContainers THEN FALSE ELSE @]

\* The closures left behind by the indicators at the positions gone
RECURSIVE LeftBehind(_, _)
LeftBehind(inds, gone) ==
    IF gone = {} THEN <<>>
    ELSE LET q == Min(gone)
             z == Zombie("ind", inds[q].target, Unregistered(inds[q]))
         IN (IF Lingers(z) THEN <<z>> ELSE <<>>) \o LeftBehind(inds, gone \ {q})

\* Variant: the element stays observed
StillObserved(element) == observed

\* if (this.resizeObserver) this.resizeObserver.unobserve(element)
Unobserved(element) == IF roSupported THEN observed \ {element} ELSE observed

\* Variant: the indicator stays in the document
IndicatorsKept(inds, q) == inds

\* if (indicator) document.body.removeChild(indicator)
IndicatorsAfterRemove(inds, q) == IF q = 0 THEN inds ELSE RemoveAt(inds, q)

\* The effect of removeElementFromSelection(index) for an index in range
RemoveEntry(index) ==
    LET item == selectedElements[index + 1]
        id == item.id
        q == QueryIndicator(indicators, id)
        inds == Renumber(IndicatorsAfterRemove(indicators, q), 1)
        sel == RemoveAt(selectedElements, index + 1)
        order == FirstSeen(sel, inds, <<>>)
        zs == BagAddAll(zombies, LeftBehind(indicators, IF q = 0 THEN {} ELSE {q}))
    IN /\ BagSize(zs) <= MaxZombies
       /\ observed' = Unobserved(item.element)
       /\ indicators' = RenameIds(inds, order)
       /\ selectedElements' = RenameIds(sel, order)
       /\ indicatorScrollHandlers' = MapRename(MapDelete(indicatorScrollHandlers, id), order)
       /\ msIds' = {Rank(order, x) : x \in msIds \cap LiveIds(sel, inds)}
       /\ zombies' = zs
       /\ panel' = updateSelectionPanel(sel)
       /\ Mutated(TRUE)
       /\ ghostWrite' = FALSE
       /\ UNCHANGED warnings
       /\ UNCHANGED <<pageVars, scrollContainers, roPending, highlightedElement,
                      highlightOverlay, highlightScrollHandler, cDetect, rafQueue, spotRaf,
                      hlVars>>

\* Variant: an index out of range is clamped to the last entry
ClampedRemove(index) ==
    IF selectedElements = <<>>
    THEN UNCHANGED <<pageVars, selVars, closureVars, hlVars, ghostWrite, warnings, panel>>
    ELSE RemoveEntry(Len(selectedElements) - 1)

\* if (index < 0 || index >= this.selectedElements.length) return;
OutOfRangeRemove(index) == UNCHANGED <<pageVars, selVars, closureVars, hlVars, ghostWrite, warnings, panel>>

\* Variant: unobserve is called on the observer that was never created, and
\* the TypeError ends the call before anything is removed
RemoveThrowsWithoutObserver(index) ==
    /\ ~moPending
    /\ lastCall' = Call("remove", NoNode, index >= 0 /\ index < Len(selectedElements))
    /\ IF index < 0 \/ index >= Len(selectedElements) \/ ~roSupported
       THEN OutOfRangeRemove(index)
       ELSE RemoveEntry(index)

removeElementFromSelection(index) ==
    /\ ~moPending
    /\ lastCall' = Call("remove", NoNode, index >= 0 /\ index < Len(selectedElements))
    /\ IF index < 0 \/ index >= Len(selectedElements)
       THEN OutOfRangeRemove(index)
       ELSE RemoveEntry(index)

\* the console.warn calls after initResizeObserver ran once more
initResizeObserver ==
    IF roSupported THEN warnings ELSE [warnings EXCEPT !.ro = Sat(@ + 1, MaxWarn)]

\* The effect of clearSelection() on the selection manager and the page
ClearAll ==
    LET zs == BagAddAll(zombies, LeftBehind(indicators, DOMAIN indicators))
    IN /\ BagSize(zs) <= MaxZombies
       /\ indicators' = <<>>
       /\ zombies' = zs
       /\ observed' = {}
       /\ roPending' = FALSE
       /\ selectedElements' = <<>>
       /\ indicatorScrollHandlers' = {}
       /\ highlightOverlay' = [highlightOverlay EXCEPT !.display = FALSE]
       /\ highlightedElement' = NoNode
       /\ msIds' = {}
       /\ Mutated(TRUE)
       /\ ghostWrite' = FALSE
       /\ warnings' = initResizeObserver
       /\ panel' = updateSelectionPanel(<<>>)
       /\ UNCHANGED <<pageVars, scrollContainers, highlightScrollHandler, cDetect, rafQueue,
                      spotRaf>>

clearSelection ==
    /\ ~moPending
    /\ lastCall' = Call("clear", NoNode, FALSE)
    /\ ClearAll
    /\ UNCHANGED hlVars

\* The spotlight of highlightSelectedElement(index) on an attached entry: the
\* overlay is laid over the element, a new updatePosition closure replaces the
\* previous one on the current scroll containers.
\* element.scrollIntoView({behavior: 'smooth'}) makes the host scroll later: those
\* scrolls are RootScroll and ContainerScroll steps.
Spotlight(index) ==
    LET element == selectedElements[index + 1].element
        old == Zombie("spot", NoNode, Unregistered(highlightScrollHandler))
        zs == IF highlightScrollHandler.set /\ Lingers(old) THEN BagAdd(zombies, old) ELSE zombies
        shown == [display |-> TRUE, rect |-> ViewportRect(element)]
    IN /\ BagSize(zs) <= MaxZombies
       /\ highlightOverlay' = shown
       /\ highlightedElement' = element
       /\ highlightScrollHandler' =
             [set |-> TRUE, recent |-> FALSE, pending |-> "none", onC |-> ("C" \in scrollContainers)]
       /\ zombies' = zs
       /\ Mutated(shown # highlightOverlay)
       /\ ghostWrite' = FALSE
       /\ UNCHANGED <<warnings, panel>>
       /\ UNCHANGED <<pageVars, selectedElements, indicators, indicatorScrollHandlers,
                      scrollContainers, observed, roPending, cDetect, rafQueue, spotRaf, msIds,
                      hlVars>>

highlightSelectedElement(index) ==
    /\ ~moPending
    /\ lastCall' = Call("highlight", NoNode,
                         index >= 0 /\ index < Len(selectedElements)
                            /\ ~BodyContains(selectedElements[index + 1].element))
    /\ IF index < 0 \/ index >= Len(selectedElements)
       THEN UNCHANGED <<pageVars, selVars, closureVars, hlVars, ghostWrite, warnings, panel>>
       ELSE IF ~BodyContains(selectedElements[index + 1].element)
       THEN RemoveEntry(index)
       ELSE Spotlight(index)

\* ------------------------------------------------------------ scroll events
\* What one call of a closure does to the indicator that owns it, in layout g
CalledIndicator(ind, g) ==
    LET c == Called(ind)
    IN IF ~ind.recent /\ ind.target \in g.att
       THEN [c EXCEPT !.rect = RectIn(ind.target, g)]
       ELSE c

RECURSIVE CallIndicators(_, _, _)
\* the closures of the indicators, called in order; onlyC: only those registered
\* on the container
CallIndicators(inds, g, onlyC) ==
    IF inds = <<>> THEN <<>>
    ELSE <<IF onlyC /\ ~Head(inds).onC THEN Head(inds) ELSE CalledIndicator(Head(inds), g)>>
         \o CallIndicators(Tail(inds), g, onlyC)

\* A spotlight closure that gets past its throttle queues a frame callback,
\* unless nothing is spotlighted
SpotQueues(c) == ~c.recent /\ highlightedElement # NoNode

\* A 'scroll' event at window: every indicator's closure, the spotlight closure
\* and the Highlighter's listener run.
RootScroll(nx, ny) ==
    LET g == [Geo EXCEPT !.sx = nx, !.sy = ny]
        inds == CallIndicators(indicators, g, FALSE)
    IN /\ ~moPending
       /\ <<nx, ny>> # <<scrollX, scrollY>>
       /\ scrollX' = nx
       /\ scrollY' = ny
       /\ indicators' = inds
       /\ highlightScrollHandler' =
             IF highlightScrollHandler.set THEN Called(highlightScrollHandler)
             ELSE highlightScrollHandler
       /\ spotRaf' = (spotRaf \/ (highlightScrollHandler.set /\ SpotQueues(highlightScrollHandler)))
       /\ scrollThrottleTimeout' =
             (scrollThrottleTimeout \/ (isActive /\ Len(selectedElements) > 0))
       /\ Mutated(\E i \in DOMAIN inds : inds[i].rect # indicators[i].rect)
       /\ lastCall' = EnvStep
       /\ ghostWrite' = FALSE
       /\ UNCHANGED <<warnings, panel>>
       /\ UNCHANGED <<dom, attached, cScroll, cStyle, roSupported, moSupported,
                      selectedElements, indicatorScrollHandlers, scrollContainers, observed,
                      roPending, highlightedElement, highlightOverlay, zombies, cDetect,
                      rafQueue, msIds, isActive, isDownloading, currentElement, wheelVars, overlay>>

\* A zombie called by a scroll event of the container
CalledZombie(z) == IF z.onC THEN Zombie(z.kind, z.target, Called(z)) ELSE z

\* The zombies after each one registered on the container has been called
CalledZombies(B) ==
    LET img == {CalledZombie(x) : x \in DOMAIN B}
        RECURSIVE Sum(_)
        Sum(T) == IF T = {} THEN 0
                  ELSE LET x == CHOOSE x \in T : TRUE IN B[x] + Sum(T \ {x})
    IN [y \in {z \in img : Lingers(z)} |-> Sum({x \in DOMAIN B : CalledZombie(x) = y})]

\* A 'scroll' event at the container: the listeners detection has left on it
\* and the closures registered on it run.
ContainerScroll(ncs) ==
    LET g == [Geo EXCEPT !.cs = ncs]
        inds == CallIndicators(indicators, g, TRUE)
        spot == highlightScrollHandler.set /\ highlightScrollHandler.onC
        ghosts == {z \in DOMAIN zombies : z.onC /\ ~z.recent}
    IN /\ ~moPending
       /\ CanScroll(cStyle)
       /\ ncs # cScroll
       /\ cScroll' = ncs
       /\ indicators' = inds
       /\ highlightScrollHandler' =
             IF spot THEN Called(highlightScrollHandler) ELSE highlightScrollHandler
       /\ zombies' = CalledZombies(zombies)
       /\ spotRaf' = (spotRaf \/ (spot /\ SpotQueues(highlightScrollHandler))
                              \/ (\E z \in ghosts : z.kind = "spot" /\ highlightedElement # NoNode))
       /\ rafQueue' = Sat(rafQueue + cDetect, MaxRaf)
       /\ ghostWrite' = (\E z \in ghosts : z.kind = "ind" /\ z.target \in attached)
       /\ UNCHANGED <<warnings, panel>>
       /\ Mutated(\E i \in DOMAIN inds : inds[i].rect # indicators[i].rect)
       /\ lastCall' = EnvStep
       /\ UNCHANGED <<dom, attached, scrollX, scrollY, cStyle, roSupported, moSupported,
                      selectedElements, indicatorScrollHandlers, scrollContainers, observed,
                      roPending, highlightedElement, highlightOverlay, cDetect, msIds, hlVars>>

\* ------------------------------------------------------------------- timers
\* The trailing setTimeout of indicator i's closure fires
IndicatorTimerFire(i) ==
    /\ ~moPending
    /\ i \in DOMAIN indicators
    /\ indicators[i].pending # "none"
    /\ LET ind == indicators[i]
           c == Fired(ind)
           upd == IF ind.pending = "armed" /\ BodyContains(ind.target)
                  THEN [c EXCEPT !.rect = ViewportRect(ind.target)]
                  ELSE c
       IN /\ indicators' = [indicators EXCEPT ![i] = upd]
          /\ Mutated(upd.rect # ind.rect)
    /\ lastCall' = EnvStep
    /\ ghostWrite' = FALSE
    /\ UNCHANGED <<warnings, panel>>
    /\ UNCHANGED <<pageVars, selectedElements, indicatorScrollHandlers, scrollContainers,
                   observed, roPending, highlightedElement, highlightOverlay,
                   highlightScrollHandler, zombies, cDetect, rafQueue, spotRaf, msIds, hlVars>>

\* The trailing setTimeout of the current spotlight closure fires
SpotlightTimerFire ==
    /\ ~moPending
    /\ highlightScrollHandler.pending # "none"
    /\ highlightScrollHandler' = Fired(highlightScrollHandler)
    /\ spotRaf' = (spotRaf \/ (highlightScrollHandler.pending = "armed"
                               /\ highlightedElement # NoNode))
    /\ lastCall' = EnvStep
    /\ ghostWrite' = FALSE
    /\ UNCHANGED <<warnings, panel>>
    /\ UNCHANGED <<pageVars, selectedElements, indicators, indicatorScrollHandlers,
                   scrollContainers, observed, roPending, highlightedElement, highlightOverlay,
                   zombies, cDetect, rafQueue, msIds, moPending, hlVars>>

\* The trailing setTimeout of a closure whose overlay is gone, or which has been
\* replaced, fires
ZombieTimerFire(z) ==
    /\ ~moPending
    /\ z \in DOMAIN zombies
    /\ z.pending # "none"
    /\ LET f == Zombie(z.kind, z.target, Fired(z))
           rest == BagRemove(zombies, z)
       IN zombies' = IF Lingers(f) THEN BagAdd(rest, f) ELSE rest
    /\ spotRaf' = (spotRaf \/ (z.kind = "spot" /\ z.pending = "armed"
                               /\ highlightedElement # NoNode))
    /\ ghostWrite' = (z.kind = "ind" /\ z.pending = "armed" /\ BodyContains(z.target))
    /\ UNCHANGED <<warnings, panel>>
    /\ lastCall' = EnvStep
    /\ UNCHANGED <<pageVars, selVars, cDetect, rafQueue, msIds, moPending, hlVars>>

\* throttleMs have passed since the last update of indicator i's closure
IndicatorWindowEnds(i) ==
    /\ ~moPending
    /\ i \in DOMAIN indicators
    /\ indicators[i].recent
    /\ indicators[i].pending # "superseded"
    /\ indicators' = [indicators EXCEPT ![i].recent = FALSE]
    /\ lastCall' = EnvStep
    /\ ghostWrite' = FALSE
    /\ UNCHANGED <<warnings, panel>>
    /\ UNCHANGED <<pageVars, selectedElements, indicatorScrollHandlers, scrollContainers,
                   observed, roPending, highlightedElement, highlightOverlay,
                   highlightScrollHandler, closureVars, hlVars>>

SpotlightWindowEnds ==
    /\ ~moPending
    /\ highlightScrollHandler.recent
    /\ highlightScrollHandler.pending # "superseded"
    /\ highlightScrollHandler' = [highlightScrollHandler EXCEPT !.recent = FALSE]
    /\ lastCall' = EnvStep
    /\ ghostWrite' = FALSE
    /\ UNCHANGED <<warnings, panel>>
    /\ UNCHANGED <<pageVars, selectedElements, indicators, indicatorScrollHandlers,
                   scrollContainers, observed, roPending, highlightedElement, highlightOverlay,
                   closureVars, hlVars>>

ZombieWindowEnds(z) ==
    /\ ~moPending
    /\ z \in DOMAIN zombies
    /\ z.recent
    /\ z.pending # "superseded"
    /\ zombies' = BagAdd(BagRemove(zombies, z), [z EXCEPT !.recent = FALSE])
    /\ lastCall' = EnvStep
    /\ ghostWrite' = FALSE
    /\ UNCHANGED <<warnings, panel>>
    /\ UNCHANGED <<pageVars, selVars, cDetect, rafQueue, spotRaf, msIds, moPending, hlVars>>

\* The Highlighter's 16 ms timer: SelectionManager.updateAllIndicatorPositions()
ScrollThrottleFire ==
    /\ ~moPending
    /\ scrollThrottleTimeout
    /\ scrollThrottleTimeout' = FALSE
    /\ rafQueue' = Sat(rafQueue + 1, MaxRaf)
    /\ lastCall' = EnvStep
    /\ ghostWrite' = FALSE
    /\ UNCHANGED <<warnings, panel>>
    /\ UNCHANGED <<pageVars, selVars, zombies, cDetect, spotRaf, msIds, moPending, isActive,
                   isDownloading, currentElement, wheelVars, overlay>>

\* ---------------------------------------------------------- animation frame
RECURSIVE PassOver(_, _)
\* The frame callback of updateAllIndicatorPositions: for every entry, the
\* first indicator carrying its id is laid over the element if it is attached.
PassOver(items, inds) ==
    IF items = <<>> THEN inds
    ELSE LET q == QueryIndicator(inds, Head(items).id)
         IN PassOver(Tail(items),
                     IF q # 0 /\ BodyContains(Head(items).element)
                     THEN [inds EXCEPT ![q].rect = ViewportRect(Head(items).element)]
                     ELSE inds)

\* One frame: the queued callbacks run, then the ResizeObserver delivers its
\* notification, whose callback queues a pass for the next frame.
AnimationFrame ==
    LET inds == IF rafQueue > 0 THEN PassOver(selectedElements, indicators) ELSE indicators
        shown == IF spotRaf /\ BodyContains(highlightedElement)
                   THEN [highlightOverlay EXCEPT !.rect = ViewportRect(highlightedElement)]
                   ELSE highlightOverlay
    IN /\ ~moPending
       /\ rafQueue > 0 \/ spotRaf \/ roPending
       /\ indicators' = inds
       /\ highlightOverlay' = shown
       /\ rafQueue' = IF roPending THEN 1 ELSE 0
       /\ spotRaf' = FALSE
       /\ roPending' = FALSE
       /\ Mutated(inds # indicators \/ shown # highlightOverlay)
       /\ lastCall' = IF rafQueue > 0 THEN Call("pass", NoNode, FALSE) ELSE EnvStep
       /\ ghostWrite' = FALSE
       /\ UNCHANGED <<warnings, panel>>
       /\ UNCHANGED <<pageVars, selectedElements, indicatorScrollHandlers, scrollContainers,
                      observed, highlightedElement, highlightScrollHandler, zombies, cDetect,
                      msIds, hlVars>>

\* Date.now() moves on to the next millisecond
ClockTick ==
    /\ ~moPending
    /\ msIds' = {}
    /\ lastCall' = EnvStep
    /\ ghostWrite' = FALSE
    /\ UNCHANGED <<warnings, panel>>
    /\ UNCHANGED <<pageVars, selVars, zombies, cDetect, rafQueue, spotRaf, moPending, hlVars>>

\* ------------------------------------------------------- mutation observer
\* Variant: the callback only requests the pass
PassWithoutDetection ==
    /\ moPending
    /\ moPending' = FALSE
    /\ rafQueue' = Sat(rafQueue + 1, MaxRaf)
    /\ lastCall' = [lastCall EXCEPT !.rep = FALSE]
    /\ ghostWrite' = FALSE
    /\ UNCHANGED <<warnings, panel>>
    /\ UNCHANGED <<pageVars, selVars, zombies, cDetect, spotRaf, msIds, hlVars>>

\* The MutationObserver callback at the microtask checkpoint: every record it
\* is configured for is significant, so detectScrollContainers() and then
\* updateAllIndicatorPositions() run.
MutationCallback ==
    /\ moPending
    /\ moPending' = FALSE
    /\ scrollContainers' = DetectedContainers
    /\ cDetect' = DetectionListeners
    /\ rafQueue' = Sat(rafQueue + 1, MaxRaf)
    /\ lastCall' = [lastCall EXCEPT !.rep = FALSE]
    /\ ghostWrite' = FALSE
    /\ UNCHANGED <<warnings, panel>>
    /\ UNCHANGED <<pageVars, selectedElements, indicators, indicatorScrollHandlers, observed,
                   roPending, highlightedElement, highlightOverlay, highlightScrollHandler,
                   zombies, spotRaf, msIds, hlVars>>

\* -------------------------------------------------------------- host page
\* The host removes an element from the document
Detach(n) ==
    /\ ~moPending
    /\ n \in attached
    /\ Cardinality(Nodes \ attached) < MaxDetached
    /\ attached' = attached \ {n}
    /\ roPending' = (roPending \/ n \in observed)
    /\ Mutated(TRUE)
    /\ lastCall' = EnvStep
    /\ ghostWrite' = FALSE
    /\ UNCHANGED <<warnings, panel>>
    /\ UNCHANGED <<dom, scrollX, scrollY, cScroll, cStyle, roSupported, moSupported,
                   selectedElements, indicators, indicatorScrollHandlers, scrollContainers,
                   observed, highlightedElement, highlightOverlay, highlightScrollHandler,
                   zombies, cDetect, rafQueue, spotRaf, msIds, hlVars>>

\* The host puts it back
Attach(n) ==
    /\ ~moPending
    /\ n \in Nodes \ attached
    /\ attached' = attached \cup {n}
    /\ roPending' = (roPending \/ n \in observed)
    /\ Mutated(TRUE)
    /\ lastCall' = EnvStep
    /\ ghostWrite' = FALSE
    /\ UNCHANGED <<warnings, panel>>
    /\ UNCHANGED <<dom, scrollX, scrollY, cScroll, cStyle, roSupported, moSupported,
                   selectedElements, indicators, indicatorScrollHandlers, scrollContainers,
                   observed, highlightedElement, highlightOverlay, highlightScrollHandler,
                   zombies, cDetect, rafQueue, spotRaf, msIds, hlVars>>

\* The host changes the container's style or content
Restyle(st) ==
    /\ ~moPending
    /\ st # cStyle
    /\ cStyle' = st
    /\ cScroll' = IF CanScroll(st) THEN cScroll ELSE 0
    /\ Mutated(TRUE)
    /\ lastCall' = EnvStep
    /\ ghostWrite' = FALSE
    /\ UNCHANGED <<warnings, panel>>
    /\ UNCHANGED <<dom, attached, scrollX, scrollY, roSupported, moSupported, selVars,
                   zombies, cDetect, rafQueue, spotRaf, msIds, hlVars>>

\* ------------------------------------------------------------- Highlighter
\* Number of wheel movements to change selection
scrollThreshold == 2

\* Element.parentElement: an element the host took out has none
ParentElement(n) == IF n \in Nodes /\ n \notin attached THEN NoNode ELSE Parent(n)

RECURSIVE Contains(_, _)
\* a.contains(b): b is a or a descendant of a
Contains(a, b) ==
    IF b = NoNode THEN FALSE ELSE IF a = b THEN TRUE ELSE Contains(a, ParentElement(b))

RECURSIVE buildElementHierarchy(_)
\* buildElementHierarchy(element): the element and its ancestors up to document.body
buildElementHierarchy(element) ==
    <<element>> \o (IF ParentElement(element) # NoNode /\ element # "body"
                    THEN buildElementHierarchy(ParentElement(element))
                    ELSE <<>>)

\* the filter of getNavigableChildren: a child in the document that is more
\* than 5 px wide and high (no element of the fixture has display: none)
Navigable(child) ==
    /\ BodyContains(child)
    /\ ViewportRect(child).width > 5
    /\ ViewportRect(child).height > 5

getNavigableChildren(element) == SelectSeq(Children(element), Navigable)

\* The square of twice the distance between the centres of two boxes
CentreDistance(r, parentRect) ==
    LET dx == (2 * r.left + r.width) - (2 * parentRect.left + parentRect.width)
        dy == (2 * r.top + r.height) - (2 * parentRect.top + parentRect.height)
    IN dx * dx + dy * dy

RECURSIVE Closest(_, _, _)
\* elements.forEach: if (distance < closestDistance) the element replaces the closest
Closest(elements, closestElement, parentRect) ==
    IF elements = <<>> THEN closestElement
    ELSE LET e == Head(elements)
             closer == CentreDistance(ViewportRect(e), parentRect)
                          < CentreDistance(ViewportRect(closestElement), parentRect)
         IN Closest(Tail(elements), IF closer THEN e ELSE closestElement, parentRect)

\* Variant: the first navigable child
FirstChild(elements) == elements[1]

\* findCenterElement(elements), elements not empty: the child closest to the
\* centre of this.currentElement, the first of them if several are
findCenterElement(elements) ==
    IF Len(elements) = 1 THEN elements[1]
    ELSE Closest(Tail(elements), elements[1], ViewportRect(currentElement))

\* The box handleMouseMove and handleMouseWheel give the hover overlay:
\* window.scrollY + rect.top, window.scrollX + rect.left
HoverRect(n) == [ViewportRect(n) EXCEPT !.top = scrollY + @, !.left = scrollX + @]

\* deactivateHighlighter(): the Highlighter's fields and the hover overlay
deactivateHighlighter ==
    /\ isActive' = FALSE
    /\ overlay' = [overlay EXCEPT !.display = FALSE]
    /\ currentHierarchy' = <<>>
    /\ hierarchyIndex' = 0
    /\ scrollWheelCounter' = 0

\* activateHighlighter()
activateHighlighter ==
    /\ isActive' = TRUE
    /\ overlay' = [overlay EXCEPT !.display = TRUE]
    /\ UNCHANGED wheelVars

\* toggleHighlighter(): activateHighlighter() or deactivateHighlighter(); both
\* show a notification
toggleHighlighter ==
    /\ ~moPending
    /\ lastCall' = Call("toggle", NoNode, FALSE)
    /\ ghostWrite' = FALSE
    /\ UNCHANGED <<warnings, panel>>
    /\ IF isDownloading
       THEN \* if (this.isDownloading) return;
            UNCHANGED <<pageVars, selVars, closureVars, hlVars>>
       ELSE /\ IF isActive THEN deactivateHighlighter ELSE activateHighlighter
            /\ Mutated(TRUE)
            /\ UNCHANGED <<pageVars, selVars, zombies, cDetect, rafQueue, spotRaf, msIds,
                           isDownloading, currentElement, scrollThrottleTimeout>>

\* handleMouseMove(e) with e.target = target: the hover overlay is laid over it
handleMouseMove(target) ==
    /\ ~moPending
    /\ lastCall' = EnvStep
    /\ ghostWrite' = FALSE
    /\ UNCHANGED <<warnings, panel>>
    /\ IF ~isActive \/ isDownloading
       THEN UNCHANGED <<pageVars, selVars, closureVars, hlVars>>
       ELSE /\ currentElement' = target
            /\ IF target # currentElement
               THEN currentHierarchy' = <<>> /\ hierarchyIndex' = 0 /\ scrollWheelCounter' = 0
               ELSE UNCHANGED wheelVars
            /\ overlay' = [overlay EXCEPT !.rect = HoverRect(target)]
            /\ Mutated(TRUE)
            /\ UNCHANGED <<pageVars, selVars, zombies, cDetect, rafQueue, spotRaf, msIds,
                           isActive, isDownloading, scrollThrottleTimeout>>

\* Variant: the counter is not reset after a step
CounterKeptAfterStep(counter) == counter

\* // Reset counter
CounterAfterStep(counter) == 0

\* The step of handleMouseWheel once the threshold is reached, counter being
\* the counter that reached it: [element, hierarchy, index]
WheelStep(counter) ==
    LET built == currentHierarchy = <<>>
        hierarchy == IF built THEN buildElementHierarchy(currentElement) ELSE currentHierarchy
        index == IF built THEN 0 ELSE hierarchyIndex
        children == getNavigableChildren(currentElement)
        stay == [element |-> currentElement, hierarchy |-> hierarchy, index |-> index]
    IN IF counter > 0
       THEN IF index < Len(hierarchy) - 1
            THEN [stay EXCEPT !.index = index + 1, !.element = hierarchy[index + 2]]
            ELSE stay
       ELSE IF index > 0
            THEN [stay EXCEPT !.index = index - 1, !.element = hierarchy[index]]
            ELSE IF Len(children) > 0
            THEN [element |-> findCenterElement(children),
                  hierarchy |-> buildElementHierarchy(findCenterElement(children)),
                  index |-> 0]
            ELSE stay

\* handleMouseWheel(e): isScrollUp = e.deltaY < 0
handleMouseWheel(isScrollUp) ==
    LET counter == scrollWheelCounter + (IF isScrollUp THEN 1 ELSE -1)
        step == WheelStep(counter)
        ignored == ~isActive \/ isDownloading \/ currentElement = NoNode
    IN /\ ~moPending
       /\ lastCall' = IF ignored THEN EnvStep
                      ELSE Call("wheel", IF isScrollUp THEN "up" ELSE "down",
                                Abs(counter) >= scrollThreshold /\ step.element # currentElement)
       /\ ghostWrite' = FALSE
       /\ UNCHANGED <<warnings, panel>>
       /\ IF ignored
          THEN UNCHANGED <<pageVars, selVars, closureVars, hlVars>>
          ELSE IF Abs(counter) < scrollThreshold
          THEN /\ scrollWheelCounter' = counter
               /\ UNCHANGED <<pageVars, selVars, closureVars, isActive, isDownloading,
                              currentElement, scrollThrottleTimeout, currentHierarchy,
                              hierarchyIndex, overlay>>
          ELSE /\ currentElement' = step.element
               /\ currentHierarchy' = step.hierarchy
               /\ hierarchyIndex' = step.index
               /\ overlay' = [overlay EXCEPT !.rect = HoverRect(step.element)]
               /\ scrollWheelCounter' = CounterAfterStep(counter)
               /\ Mutated(TRUE)
               /\ UNCHANGED <<pageVars, selVars, zombies, cDetect, rafQueue, spotRaf, msIds,
                              isActive, isDownloading, scrollThrottleTimeout>>

\* The answers to window.confirm / window.prompt and the result of the
\* Downloader: the prompt is cancelled, the download fails (returns false), or
\* the file is saved.  confirm and prompt block the page, so a handler that
\* shows them is one step.
Outcomes == {"cancelled", "failed", "saved"}

\* A handler that ends without having changed anything
Ignored == UNCHANGED <<pageVars, selVars, closureVars, hlVars, ghostWrite, warnings, panel>>

\* A handler that only shows a notification
Notified ==
    /\ Mutated(TRUE)
    /\ ghostWrite' = FALSE
    /\ UNCHANGED <<warnings, panel>>
    /\ UNCHANGED <<pageVars, selVars, zombies, cDetect, rafQueue, spotRaf, msIds, hlVars>>

\* Variant: the cancelled prompt returns without resetting the flag
FlagKeptOnCancel(outcome) == outcome = "cancelled"

\* isDownloading when a handler that set it returns: this.isDownloading = false
\* before the return of the cancelled prompt and at the end of the handler
DownloadEnds(outcome) == FALSE

\* The plain click: the hovered element is downloaded on its own, and the
\* highlighter is deactivated when the file was saved
DownloadCurrentElement(outcome) ==
    /\ isDownloading' = DownloadEnds(outcome)
    /\ ghostWrite' = FALSE
    /\ UNCHANGED <<warnings, panel>>
    /\ IF outcome = "saved"
       THEN deactivateHighlighter
       ELSE UNCHANGED <<isActive, wheelVars, overlay>>
    /\ IF outcome = "cancelled" THEN UNCHANGED moPending ELSE Mutated(TRUE)
    /\ UNCHANGED <<pageVars, selVars, zombies, cDetect, rafQueue, spotRaf, msIds,
                   currentElement, scrollThrottleTimeout>>

RECURSIVE AncestorInSelection(_)
\* while (parent && index === -1) { index = findElementInSelection(parent); parent = parent.parentElement }
AncestorInSelection(parent) ==
    IF parent = NoNode THEN -1
    ELSE IF findElementInSelection(parent) # -1 THEN findElementInSelection(parent)
    ELSE AncestorInSelection(ParentElement(parent))

\* The entry Ctrl+Click removes, -1 if none: the entry findElementInSelection
\* finds for the hovered element, or else the first entry the hovered element
\* contains, or else the entry found for its nearest ancestor
CtrlClickIndex ==
    LET index == findElementInSelection(currentElement)
        inside == {i \in DOMAIN selectedElements :
                      Contains(currentElement, selectedElements[i].element)}
    IN IF index # -1 THEN index
       ELSE IF inside # {} THEN Min(inside) - 1
       ELSE AncestorInSelection(ParentElement(currentElement))

\* handleClick(e): target is a page element, "panel" or "indicator"
handleClick(target, ctrlKey, shiftKey, outcome) ==
    /\ ~moPending
    /\ IF target \in {"panel", "indicator"}
          \/ ~isActive \/ currentElement = NoNode \/ isDownloading
       THEN lastCall' = Call("click", target, FALSE) /\ Ignored
       ELSE IF ctrlKey
       THEN IF CtrlClickIndex # -1
            THEN removeElementFromSelection(CtrlClickIndex)
            ELSE lastCall' = Call("click", target, FALSE) /\ Notified
       ELSE IF shiftKey
       THEN addElementToSelection(currentElement)
       ELSE lastCall' = Call("click", target, TRUE) /\ DownloadCurrentElement(outcome)

\* downloadSelectedElements() on a selection that is not empty
downloadSelectedElements(outcome) ==
    IF outcome = "saved"
    THEN \* SelectionManager.clearSelection(); this.deactivateHighlighter();
         /\ ClearAll
         /\ deactivateHighlighter
         /\ isDownloading' = DownloadEnds(outcome)
         /\ UNCHANGED <<currentElement, scrollThrottleTimeout>>
    ELSE /\ isDownloading' = DownloadEnds(outcome)
         /\ ghostWrite' = FALSE
         /\ UNCHANGED <<warnings, panel>>
         /\ IF outcome = "cancelled" THEN UNCHANGED moPending ELSE Mutated(TRUE)
         /\ UNCHANGED <<pageVars, selVars, zombies, cDetect, rafQueue, spotRaf, msIds,
                        isActive, currentElement, scrollThrottleTimeout, wheelVars, overlay>>

\* Variant: Escape only ends a download in progress
EscapeKeepsActive ==
    /\ isDownloading' = FALSE
    /\ Mutated(TRUE)
    /\ ghostWrite' = FALSE
    /\ UNCHANGED <<warnings, panel>>
    /\ UNCHANGED <<pageVars, selVars, zombies, cDetect, rafQueue, spotRaf, msIds,
                   isActive, currentElement, scrollThrottleTimeout, wheelVars, overlay>>

\* deactivateHighlighter() called by the Escape key
EscapePressed ==
    /\ isDownloading' = FALSE
    /\ deactivateHighlighter
    /\ Mutated(TRUE)
    /\ ghostWrite' = FALSE
    /\ UNCHANGED <<warnings, panel>>
    /\ UNCHANGED <<pageVars, selVars, zombies, cDetect, rafQueue, spotRaf, msIds,
                   currentElement, scrollThrottleTimeout>>

Keys == {"Escape", "c", "d", "x"}

\* Variant: the shortcuts are not gated by isActive
KeyPressAnyTime(key, outcome) ==
    /\ ~moPending
    /\ lastCall' = Call("key", key, FALSE)
    /\ IF key = "Escape"
       THEN IF isActive THEN EscapePressed ELSE Ignored
       ELSE IF key = "c" THEN ClearAll /\ UNCHANGED hlVars
       ELSE IF key = "d"
       THEN IF Len(selectedElements) > 0 THEN downloadSelectedElements(outcome) ELSE Notified
       ELSE Ignored

\* handleKeyPress(e) with e.key = key (c and d stand for both cases of the letter)
handleKeyPress(key, outcome) ==
    /\ ~moPending
    /\ lastCall' = Call("key", key, FALSE)
    /\ IF key = "Escape"
       THEN IF isActive THEN EscapePressed ELSE Ignored
       ELSE IF ~(isActive /\ ~isDownloading) THEN Ignored
       ELSE IF key = "c" THEN ClearAll /\ UNCHANGED hlVars
       ELSE IF key = "d"
       THEN IF Len(selectedElements) > 0 THEN downloadSelectedElements(outcome) ELSE Notified
       ELSE Ignored

\* ------------------------------------------------- the closure in real time
\* now - lastUpdateTime >= throttleMs
Elapsed(c) == c.now - c.lastUpdateTime >= ThrottleTicks

\* Variant: the throttled branch sets a timer whether or not one is pending
TimerOnEveryThrottledCall(c) ==
    IF ~Elapsed(c)
    THEN [c EXCEPT !.pendingUpdate = TRUE, !.timers = Append(@, c.now + ThrottleTicks)]
    ELSE [c EXCEPT !.lastUpdateTime = c.now, !.stale = FALSE,
                   !.gap = Min({@, c.now - c.moved}), !.moved = c.now]

\* One call of updateIndicatorPosition at time c.now
updateIndicatorPosition(c) ==
    IF ~Elapsed(c)
    THEN IF ~c.pendingUpdate
         THEN [c EXCEPT !.pendingUpdate = TRUE, !.timers = Append(@, c.now + ThrottleTicks)]
         ELSE c
    ELSE [c EXCEPT !.lastUpdateTime = c.now, !.stale = FALSE,
                   !.gap = Min({@, c.now - c.moved}), !.moved = c.now]

\* The first indicator after a call of its closure that found c, in layout g
Repositioned(c, g) ==
    IF indicators # <<>> /\ Elapsed(c) /\ indicators[1].target \in g.att
    THEN [indicators EXCEPT ![1].rect = RectIn(indicators[1].target, g)]
    ELSE indicators

\* A 'scroll' event at window at time clock.now, with one indicator at most:
\* its closure, the spotlight closure and the Highlighter's listener run.
TimedScroll(ny) ==
    LET g == [Geo EXCEPT !.sy = ny]
        inds == Repositioned(clock, g)
    IN /\ ~moPending
       /\ Len(indicators) <= 1
       /\ ny # scrollY
       /\ scrollY' = ny
       /\ indicators' = inds
       /\ clock' = IF indicators = <<>> THEN clock
                   ELSE updateIndicatorPosition([clock EXCEPT !.stale = TRUE])
       /\ highlightScrollHandler' =
             IF highlightScrollHandler.set THEN Called(highlightScrollHandler)
             ELSE highlightScrollHandler
       /\ spotRaf' = (spotRaf \/ (highlightScrollHandler.set /\ SpotQueues(highlightScrollHandler)))
       /\ scrollThrottleTimeout' =
             (scrollThrottleTimeout \/ (isActive /\ Len(selectedElements) > 0))
       /\ Mutated(inds # indicators)
       /\ lastCall' = EnvStep
       /\ ghostWrite' = FALSE
       /\ UNCHANGED <<warnings, panel>>
       /\ UNCHANGED <<dom, attached, scrollX, cScroll, cStyle, roSupported, moSupported,
                      selectedElements, indicatorScrollHandlers, scrollContainers, observed,
                      roPending, highlightedElement, highlightOverlay, zombies, cDetect,
                      rafQueue, msIds, isActive, isDownloading, currentElement, wheelVars, overlay>>

\* The closure's oldest setTimeout fires, at its due time or later:
\* updateIndicatorPosition(); pendingUpdate = false
TimedTimerFire ==
    LET c == [clock EXCEPT !.timers = Tail(@)]
        inds == Repositioned(c, Geo)
    IN /\ ~moPending
       /\ clock.timers # <<>>
       /\ Head(clock.timers) <= clock.now
       /\ clock' = [updateIndicatorPosition(c) EXCEPT !.pendingUpdate = FALSE]
       /\ indicators' = inds
       /\ Mutated(inds # indicators)
       /\ lastCall' = EnvStep
       /\ ghostWrite' = FALSE
       /\ UNCHANGED <<warnings, panel>>
       /\ UNCHANGED <<pageVars, selectedElements, indicatorScrollHandlers, scrollContainers,
                      observed, roPending, highlightedElement, highlightOverlay,
                      highlightScrollHandler, zombies, cDetect, rafQueue, spotRaf, msIds, hlVars>>

\* One tick of the clock passes
TimedTick ==
    /\ clock.now < MaxNow
    /\ ClockTick
    /\ clock' = [clock EXCEPT !.now = @ + 1]

\* ------------------------------------------------------------ specification
\* The selection interface on a page the host leaves alone
Next ==
    \/ \E n \in dom : addElementToSelection(n) /\ UNCHANGED <<burst, clock>>
    \/ \E i \in -1..MaxSelected : removeElementFromSelection(i) /\ UNCHANGED <<burst, clock>>
    \/ clearSelection /\ UNCHANGED <<burst, clock>>
    \/ AnimationFrame /\ UNCHANGED <<burst, clock>>
    \/ ClockTick /\ UNCHANGED <<burst, clock>>
    \/ MutationCallback /\ UNCHANGED <<burst, clock>>

Spec == Init /\ [][Next]_vars

\* The selection interface on a page whose host takes elements out of the
\* document and puts them back
HostInit == InitPage({"A", "B"}, {0}, {MaxScroll}, {PlainStyle}, BOOLEAN, BOOLEAN) /\ InitEngine

HostNext ==
    \/ \E n \in dom : addElementToSelection(n) /\ UNCHANGED <<burst, clock>>
    \/ \E i \in -1..MaxSelected : removeElementFromSelection(i) /\ UNCHANGED <<burst, clock>>
    \/ clearSelection /\ UNCHANGED <<burst, clock>>
    \/ AnimationFrame /\ UNCHANGED <<burst, clock>>
    \/ ClockTick /\ UNCHANGED <<burst, clock>>
    \/ MutationCallback /\ UNCHANGED <<burst, clock>>
    \/ \E n \in dom : Detach(n) /\ UNCHANGED <<burst, clock>>
    \/ \E n \in dom : Attach(n) /\ UNCHANGED <<burst, clock>>

HostSpec == HostInit /\ [][HostNext]_vars

\* Scrolling of the root view over one tracked element, with the throttled
\* closures' timers; the page has no scrollable container
ThrottleInit == InitPage({"P"}, {0}, {0}, {PlainStyle}, {TRUE}, BOOLEAN) /\ InitEngine

ThrottleNext ==
    \/ \E n \in dom : addElementToSelection(n) /\ UNCHANGED <<burst, clock>>
    \/ clearSelection /\ UNCHANGED <<burst, clock>>
    \/ toggleHighlighter /\ UNCHANGED <<burst, clock>>
    \/ \E ny \in 0..MaxScroll : RootScroll(scrollX, ny) /\ UNCHANGED <<burst, clock>>
    \/ \E i \in 1..MaxSelected : IndicatorTimerFire(i) /\ UNCHANGED <<burst, clock>>
    \/ \E i \in 1..MaxSelected : IndicatorWindowEnds(i) /\ UNCHANGED <<burst, clock>>
    \/ \E z \in DOMAIN zombies : ZombieTimerFire(z) /\ UNCHANGED <<burst, clock>>
    \/ \E z \in DOMAIN zombies : ZombieWindowEnds(z) /\ UNCHANGED <<burst, clock>>
    \/ ScrollThrottleFire /\ UNCHANGED <<burst, clock>>
    \/ AnimationFrame /\ UNCHANGED <<burst, clock>>
    \/ MutationCallback /\ UNCHANGED <<burst, clock>>

ThrottleSpec == ThrottleInit /\ [][ThrottleNext]_vars

\* Change signals on a page with a scrollable container, counted per instant:
\* burst is reset by every step that lets time pass
FrameBurst == IF roPending THEN [signals |-> 1, passes |-> 1] ELSE NoBurst

SignalInit == InitPage({"T"}, {0}, {0}, {ScrollStyle}, BOOLEAN, {TRUE}) /\ InitEngine

SignalNext ==
    \/ \E n \in dom : addElementToSelection(n) /\ UNCHANGED <<burst, clock>>
    \/ \E ny \in 0..MaxScroll : RootScroll(scrollX, ny) /\ burst' = Signal(0) /\ UNCHANGED clock
    \/ \E ncs \in 0..MaxScroll : ContainerScroll(ncs) /\ burst' = Signal(cDetect) /\ UNCHANGED clock
    \/ MutationCallback /\ burst' = Signal(1) /\ UNCHANGED clock
    \/ AnimationFrame /\ burst' = FrameBurst /\ UNCHANGED clock
    \/ \E i \in 1..MaxSelected : IndicatorTimerFire(i) /\ burst' = NoBurst /\ UNCHANGED clock
    \/ \E i \in 1..MaxSelected : IndicatorWindowEnds(i) /\ burst' = NoBurst /\ UNCHANGED clock
    \/ ClockTick /\ burst' = NoBurst /\ UNCHANGED clock
    \/ \E n \in dom : Detach(n) /\ UNCHANGED <<burst, clock>>
    \/ \E n \in dom : Attach(n) /\ UNCHANGED <<burst, clock>>
    \/ \E st \in {PlainStyle, ScrollStyle} : Restyle(st) /\ UNCHANGED <<burst, clock>>

SignalSpec == SignalInit /\ [][SignalNext]_vars

\* The selection interface with the spotlight, on a page whose container
\* starts and stops being scrollable
SpotInit == InitPage({"T", "P"}, {0}, {0}, {PlainStyle, ScrollStyle}, {TRUE}, {TRUE}) /\ InitEngine

SpotNext ==
    \/ \E n \in dom : addElementToSelection(n) /\ UNCHANGED <<burst, clock>>
    \/ \E i \in -1..MaxSelected : removeElementFromSelection(i) /\ UNCHANGED <<burst, clock>>
    \/ clearSelection /\ UNCHANGED <<burst, clock>>
    \/ \E i \in -1..MaxSelected : highlightSelectedElement(i) /\ UNCHANGED <<burst, clock>>
    \/ MutationCallback /\ UNCHANGED <<burst, clock>>
    \/ AnimationFrame /\ UNCHANGED <<burst, clock>>
    \/ \E st \in {PlainStyle, ScrollStyle} : Restyle(st) /\ UNCHANGED <<burst, clock>>

SpotSpec == SpotInit /\ [][SpotNext]_vars

\* The interface on hosts with and without ResizeObserver and MutationObserver
DegradedInit == InitPage({"T", "P"}, {0}, {MaxScroll}, {PlainStyle}, BOOLEAN, BOOLEAN) /\ InitEngine

DegradedNext ==
    \/ \E n \in dom : addElementToSelection(n) /\ UNCHANGED <<burst, clock>>
    \/ \E i \in -1..MaxSelected : removeElementFromSelection(i) /\ UNCHANGED <<burst, clock>>
    \/ clearSelection /\ UNCHANGED <<burst, clock>>
    \/ \E i \in -1..MaxSelected : highlightSelectedElement(i) /\ UNCHANGED <<burst, clock>>
    \/ MutationCallback /\ UNCHANGED <<burst, clock>>
    \/ AnimationFrame /\ UNCHANGED <<burst, clock>>

DegradedSpec == DegradedInit /\ [][DegradedNext]_vars

\* Two tracked elements on a page the user scrolls
SyncInit == InitPage({"A", "P"}, {0}, {0}, {PlainStyle}, {TRUE}, {TRUE}) /\ InitEngine

SyncNext ==
    \/ \E n \in dom : addElementToSelection(n) /\ UNCHANGED <<burst, clock>>
    \/ \E ny \in 0..MaxScroll : RootScroll(scrollX, ny) /\ UNCHANGED <<burst, clock>>
    \/ \E i \in 1..MaxSelected : IndicatorTimerFire(i) /\ UNCHANGED <<burst, clock>>
    \/ \E i \in 1..MaxSelected : IndicatorWindowEnds(i) /\ UNCHANGED <<burst, clock>>
    \/ AnimationFrame /\ UNCHANGED <<burst, clock>>
    \/ MutationCallback /\ UNCHANGED <<burst, clock>>

SyncSpec == SyncInit /\ [][SyncNext]_vars

\* The spotlight on a tracked element while the page and the container scroll
FollowInit == InitPage({"T"}, {0}, {0}, {ScrollStyle}, {TRUE}, {TRUE}) /\ InitEngine

FollowNext ==
    \/ \E n \in dom : addElementToSelection(n) /\ UNCHANGED <<burst, clock>>
    \/ \E i \in 0..(MaxSelected - 1) : highlightSelectedElement(i) /\ UNCHANGED <<burst, clock>>
    \/ \E ny \in 0..MaxScroll : RootScroll(scrollX, ny) /\ UNCHANGED <<burst, clock>>
    \/ \E ncs \in 0..MaxScroll : ContainerScroll(ncs) /\ UNCHANGED <<burst, clock>>
    \/ SpotlightTimerFire /\ UNCHANGED <<burst, clock>>
    \/ SpotlightWindowEnds /\ UNCHANGED <<burst, clock>>
    \/ \E i \in 1..MaxSelected : IndicatorTimerFire(i) /\ UNCHANGED <<burst, clock>>
    \/ \E i \in 1..MaxSelected : IndicatorWindowEnds(i) /\ UNCHANGED <<burst, clock>>
    \/ \E z \in DOMAIN zombies : ZombieTimerFire(z) /\ UNCHANGED <<burst, clock>>
    \/ \E z \in DOMAIN zombies : ZombieWindowEnds(z) /\ UNCHANGED <<burst, clock>>
    \/ AnimationFrame /\ UNCHANGED <<burst, clock>>
    \/ MutationCallback /\ UNCHANGED <<burst, clock>>

FollowSpec == FollowInit /\ [][FollowNext]_vars

\* The highlighter driven by mouse and keyboard
UserInit == InitPage({"A", "B", "P"}, {0}, {0}, {PlainStyle}, {TRUE}, {TRUE}) /\ InitEngine

UserNext ==
    \/ toggleHighlighter /\ UNCHANGED <<burst, clock>>
    \/ \E n \in dom : handleMouseMove(n) /\ UNCHANGED <<burst, clock>>
    \/ \E t \in dom \cup {"panel", "indicator"}, c, s \in BOOLEAN, o \in Outcomes :
          handleClick(t, c, s, o) /\ UNCHANGED <<burst, clock>>
    \/ \E k \in Keys, o \in Outcomes : handleKeyPress(k, o) /\ UNCHANGED <<burst, clock>>
    \/ MutationCallback /\ UNCHANGED <<burst, clock>>
    \/ AnimationFrame /\ UNCHANGED <<burst, clock>>

UserSpec == UserInit /\ [][UserNext]_vars

\* One element and its indicator, with the closure run in real time
TimedInit == InitPage({"P"}, {0}, {0}, {PlainStyle}, {TRUE}, {TRUE}) /\ InitEngine

TimedNext ==
    \/ \E n \in dom : addElementToSelection(n) /\ UNCHANGED <<burst, clock>>
    \/ \E ny \in 0..MaxScroll : TimedScroll(ny) /\ UNCHANGED burst
    \/ TimedTimerFire /\ UNCHANGED burst
    \/ TimedTick /\ UNCHANGED burst
    \/ AnimationFrame /\ UNCHANGED <<burst, clock>>
    \/ MutationCallback /\ UNCHANGED <<burst, clock>>

TimedSpec == TimedInit /\ [][TimedNext]_vars

\* Hovering and wheel navigation over the whole fixture, on a page that may
\* be scrolled
WheelInit == InitPage(Nodes, {0}, {0, MaxScroll}, {PlainStyle}, {TRUE}, {TRUE}) /\ InitEngine

WheelNext ==
    \/ toggleHighlighter /\ UNCHANGED <<burst, clock>>
    \/ \E n \in dom \cup Frame : handleMouseMove(n) /\ UNCHANGED <<burst, clock>>
    \/ \E up \in BOOLEAN : handleMouseWheel(up) /\ UNCHANGED <<burst, clock>>
    \/ MutationCallback /\ UNCHANGED <<burst, clock>>
    \/ AnimationFrame /\ UNCHANGED <<burst, clock>>

WheelSpec == WheelInit /\ [][WheelNext]_vars

\* Two tracked elements the host may take out of the document, with every
\* call of the selection manager
WatchInit == InitPage({"A", "P"}, {0}, {0}, {PlainStyle}, BOOLEAN, {TRUE}) /\ InitEngine

WatchNext ==
    \/ \E n \in dom : addElementToSelection(n) /\ UNCHANGED <<burst, clock>>
    \/ \E i \in -1..MaxSelected : removeElementFromSelection(i) /\ UNCHANGED <<burst, clock>>
    \/ clearSelection /\ UNCHANGED <<burst, clock>>
    \/ \E i \in -1..MaxSelected : highlightSelectedElement(i) /\ UNCHANGED <<burst, clock>>
    \/ \E n \in dom : Detach(n) /\ UNCHANGED <<burst, clock>>
    \/ \E n \in dom : Attach(n) /\ UNCHANGED <<burst, clock>>
    \/ MutationCallback /\ UNCHANGED <<burst, clock>>
    \/ AnimationFrame /\ UNCHANGED <<burst, clock>>

WatchSpec == WatchInit /\ [][WatchNext]_vars

\* Detection of scroll containers over every computed style of the container
DetectInit == InitPage({"T"}, {0}, {0}, Styles, {TRUE}, {TRUE}) /\ InitEngine

DetectNext ==
    \/ \E n \in dom : addElementToSelection(n) /\ UNCHANGED <<burst, clock>>
    \/ clearSelection /\ UNCHANGED <<burst, clock>>
    \/ \E st \in Styles : Restyle(st) /\ UNCHANGED <<burst, clock>>
    \/ MutationCallback /\ UNCHANGED <<burst, clock>>
    \/ AnimationFrame /\ UNCHANGED <<burst, clock>>

DetectSpec == DetectInit /\ [][DetectNext]_vars

\* =================================================================== claims
\* C1: after any sequence of add, remove and clear, the number of indicator
\* overlays in the document equals the number of entries of selectedElements.
IndicatorCountEqualsSelection == Len(indicators) = Len(selectedElements)

\* an entry has just been removed from a selection of several
RemovedOneOfSeveral ==
    /\ lastCall.op = "remove"
    /\ lastCall.ret
    /\ Len(selectedElements) = MaxSelected - 1
    /\ Len(indicators) = MaxSelected - 1

\* C2: add(node) called twice in a row: the second call returns false and
\* leaves the selection, the indicators with their badges, and the registered
\* scroll and resize watches as the first call left them.
SecondAddChangesNothing ==
    [][lastCall'.rep =>
          /\ ~lastCall'.ret
          /\ UNCHANGED <<selectedElements, indicators, indicatorScrollHandlers,
                         scrollContainers, observed, zombies, cDetect>>]_vars

\* add(node) has just been called a second time after it had succeeded
AddedTwice ==
    /\ lastCall.op = "add"
    /\ lastCall.rep
    /\ \E i \in DOMAIN selectedElements : selectedElements[i].element = lastCall.arg

\* C3: identity is by node reference: add returns false only when the same
\* reference is already tracked, and otherwise returns true and appends an
\* entry, even when a tracked node has the same tag and id or the same tag
\* and an overlapping box of nearly the same size.
AddFailsOnlyForSameReference ==
    (lastCall.op = "add" /\ ~lastCall.ret)
        => \E i \in DOMAIN selectedElements : selectedElements[i].element = lastCall.arg

\* C4: after any remove, the badge of the indicator that belongs to the entry
\* at 0-based position i shows i + 1.
BadgesFollowPositionsAfterRemove ==
    lastCall.op = "remove" =>
        /\ \A q \in DOMAIN indicators : indicators[q].badge = q
        /\ \A i \in DOMAIN selectedElements : \A q \in DOMAIN indicators :
              (/\ indicators[q].id = selectedElements[i].id
               /\ indicators[q].target = selectedElements[i].element) => indicators[q].badge = i

\* C10: immediately after a successful add(X) the new indicator's top, left,
\* width and height are X's viewport bounding rectangle as measured during the
\* call: no throttle delay, no scroll offset added.
NewIndicatorAtViewportRect ==
    (lastCall.op = "add" /\ lastCall.ret) =>
        /\ indicators # <<>>
        /\ indicators[Len(indicators)].target = lastCall.arg
        /\ indicators[Len(indicators)].rect = ViewportRect(lastCall.arg)

\* an element has just been added on a page that is scrolled
AddedOnScrolledPage ==
    /\ lastCall.op = "add"
    /\ lastCall.ret
    /\ scrollY > 0
    /\ indicators[Len(indicators)].target = lastCall.arg

\* C5: auto-eviction: once a tracked node has been detached and a recompute
\* pass (updateAllIndicatorPositions) has run, its entry and its indicator are
\* gone: after a pass every entry's node is in the document.
PassEvictsDetached ==
    lastCall.op = "pass" =>
        \A i \in DOMAIN selectedElements : BodyContains(selectedElements[i].element)

\* C8: a throttled callback that is pending when clearSelection runs is a
\* no-op when it fires: it reads no geometry for, and writes no style of, an
\* indicator that existed before the clear.  (In ThrottleSpec an indicator
\* only leaves the document by clearSelection.)
CallbackAfterClearIsNoOp == ~ghostWrite

\* nothing is scheduled: no trailing timer, no frame callback, no observer
\* notification, no Highlighter timer
Quiescent ==
    /\ \A i \in DOMAIN indicators : indicators[i].pending = "none"
    /\ rafQueue = 0
    /\ ~moPending
    /\ ~roPending
    /\ ~scrollThrottleTimeout

\* C9: after the root view has scrolled, the indicator of an attached tracked
\* node is back on the node's current viewport rectangle once the throttle
\* window and the next animation frame have passed, whether or not the
\* highlighter is active: when nothing is left scheduled, every such indicator
\* is on its node.
IndicatorFollowsRootScroll ==
    Quiescent =>
        \A i \in DOMAIN indicators :
            BodyContains(indicators[i].target)
                => indicators[i].rect = ViewportRect(indicators[i].target)

\* C6: coalescing: the change signals (root scroll, container scroll, resize
\* and mutation notifications) that arrive within one throttle window start
\* one repositioning pass over the indicators, not one per signal.  burst
\* counts the signals delivered, and the calls of updateAllIndicatorPositions
\* they made, since time last advanced.
SignalsCoalesceIntoOnePass == burst.signals >= 1 => burst.passes <= 1

\* C7: after clearSelection there are no indicators, no entries and no scroll
\* or resize subscription of the selection manager left: nothing is observed
\* for resize, and no closure of an indicator or of the spotlight is registered
\* for 'scroll' on window or on the container.
ClearLeavesNoSubscription ==
    lastCall.op = "clear" =>
        /\ indicators = <<>>
        /\ selectedElements = <<>>
        /\ observed = {}
        /\ ~highlightScrollHandler.set
        /\ \A z \in DOMAIN zombies : ~z.onC

\* the elements of the entries, and the elements the indicators lie over, in order
RECURSIVE Elements(_)
Elements(sel) == IF sel = <<>> THEN <<>> ELSE <<Head(sel).element>> \o Elements(Tail(sel))

RECURSIVE Targets(_)
Targets(inds) == IF inds = <<>> THEN <<>> ELSE <<Head(inds).target>> \o Targets(Tail(inds))

RECURSIVE Without(_, _)
Without(s, e) ==
    IF s = <<>> THEN <<>>
    ELSE (IF Head(s) = e THEN <<>> ELSE <<Head(s)>>) \o Without(Tail(s), e)

\* C11: removeElementFromSelection(index) with 0 <= index < length removes
\* exactly the entry at that index and exactly the indicator of that entry's
\* element; all other entries and indicators remain, in their previous order.
RemoveTakesExactlyThatPair ==
    [][\A index \in 0..(MaxSelected - 1) :
          (index < Len(selectedElements) /\ removeElementFromSelection(index)) =>
              /\ Elements(selectedElements') =
                    Elements(RemoveAt(selectedElements, index + 1))
              /\ Targets(indicators') =
                    Without(Targets(indicators), selectedElements[index + 1].element)]_vars

\* C12: removeElementFromSelection(index) with index < 0 or index >= length is
\* a no-op: the entries, the indicators with their badges, the handler map and
\* the observed nodes stay as they are, and nothing is written to the document
\* (the selection panel is not rebuilt, so no mutation record is queued).
OutOfRangeRemoveChangesNothing ==
    [][(lastCall'.op = "remove" /\ ~lastCall'.ret) =>
          UNCHANGED <<selectedElements, indicators, indicatorScrollHandlers, observed,
                      roPending, zombies, moPending>>]_vars

\* an index out of range has just been passed while entries are selected
RemovedOutOfRange ==
    /\ lastCall.op = "remove"
    /\ ~lastCall.ret
    /\ Len(selectedElements) >= 2

\* C13: re-detection replaces the previous set: after every run of
\* detectScrollContainers the container carries at most one scroll listener
\* installed by detection, and none when it is not classified as a scroll
\* container, however many detections have run.
DetectionLeavesOneListener ==
    cDetect <= (IF "C" \in scrollContainers THEN 1 ELSE 0)

\* C14: the re-detection a mutation notification triggers is complete before
\* the pass the same notification requests reads any geometry: when the pass
\* has run, the list of scroll containers is the one detection finds on the
\* page as it is.
DetectionBeforePass ==
    (lastCall.op = "pass" /\ moSupported) => scrollContainers = DetectedContainers

\* a pass has run over a tracked element after the container's style changed
\* the outcome of detection
PassAfterRedetection ==
    /\ lastCall.op = "pass"
    /\ selectedElements # <<>>
    /\ cDetect >= 1
    /\ "C" \notin scrollContainers

\* The classification the specification asks for: on at least one axis the
\* overflow is auto or scroll and the content exceeds the box on that axis
AxisScrollable(st) ==
    \/ st.ox \in {"auto", "scroll"} /\ st.wide
    \/ st.oy \in {"auto", "scroll"} /\ st.tall

\* C19: detectScrollContainers classifies an element as a scroll container if
\* and only if, on at least one axis, its computed overflow is auto or scroll
\* and its content exceeds its box on that same axis.
ClassifiedIffAxisScrollable ==
    ~moPending => (("C" \in scrollContainers) <=> AxisScrollable(cStyle))

\* C20: after every run of detectScrollContainers, and after every other
\* operation, window is in scrollContainers.
WindowAlwaysListed == "window" \in scrollContainers

\* detection has run again and has dropped the container from the list
RedetectedWithoutContainer ==
    /\ cDetect >= 1
    /\ scrollContainers = {"window"}

\* C15: a missing ResizeObserver or MutationObserver is logged exactly once
\* over the life of the engine, whatever calls follow init.
LoggedOncePerMissingPrimitive ==
    /\ warnings.ro = (IF roSupported THEN 0 ELSE 1)
    /\ warnings.mo = (IF moSupported THEN 0 ELSE 1)

\* what the page shows of the indicators: the element each lies over, its box, its badge
RECURSIVE Shown(_)
Shown(inds) ==
    IF inds = <<>> THEN <<>>
    ELSE <<[target |-> Head(inds).target, rect |-> Head(inds).rect, badge |-> Head(inds).badge]>>
         \o Shown(Tail(inds))

\* the entries and indicators after the entry at index went, whatever the host supports
AfterRemoval(index) ==
    LET q == QueryIndicator(indicators, selectedElements[index + 1].id)
    IN <<Elements(RemoveAt(selectedElements, index + 1)),
         Shown(Renumber(IF q = 0 THEN indicators ELSE RemoveAt(indicators, q), 1))>>

\* C16: every add, remove, clear and spotlight call completes and has one and
\* the same effect on selectedElements, the indicators and their badges, given
\* by the selection and the page alone, whether or not the host has
\* ResizeObserver and MutationObserver (without them nothing is ever observed
\* and no mutation record is ever queued).
CallsWorkTheSameWithoutObservers ==
    [][/\ (~roSupported => observed' = {} /\ ~roPending')
       /\ (~moSupported => ~moPending')
       /\ \A n \in dom :
             addElementToSelection(n) =>
                IF lastCall'.ret
                THEN /\ Elements(selectedElements') = Append(Elements(selectedElements), n)
                     /\ Shown(indicators') =
                           Append(Shown(indicators),
                                  [target |-> n, rect |-> ViewportRect(n),
                                   badge |-> Len(selectedElements) + 1])
                ELSE /\ findElementInSelection(n) # -1
                     /\ UNCHANGED <<selectedElements, indicators>>
       /\ clearSelection => (selectedElements' = <<>> /\ indicators' = <<>>)
       /\ \A index \in -1..MaxSelected :
             removeElementFromSelection(index) =>
                IF index >= 0 /\ index < Len(selectedElements)
                THEN <<Elements(selectedElements'), Shown(indicators')>> = AfterRemoval(index)
                ELSE UNCHANGED <<selectedElements, indicators>>
       /\ \A index \in -1..MaxSelected :
             highlightSelectedElement(index) =>
                IF index >= 0 /\ index < Len(selectedElements)
                   /\ ~BodyContains(selectedElements[index + 1].element)
                THEN <<Elements(selectedElements'), Shown(indicators')>> = AfterRemoval(index)
                ELSE /\ UNCHANGED <<selectedElements, indicators>>
                     /\ (index >= 0 /\ index < Len(selectedElements)) =>
                           highlightOverlay' =
                              [display |-> TRUE,
                               rect |-> ViewportRect(selectedElements[index + 1].element)]]_vars

\* on a host with neither observer, an entry has been removed while another is in the spotlight
RemovedWithoutObservers ==
    /\ ~roSupported /\ ~moSupported
    /\ lastCall.op = "remove" /\ lastCall.ret
    /\ selectedElements # <<>>
    /\ highlightedElement # NoNode

\* C17: a repositioning pass hides (and keeps) the indicator of a tracked
\* element that is not in the document, and shows the indicator of every
\* tracked element that is in the document at that element's box.
PassHidesUnmeasurable ==
    lastCall.op = "pass" =>
        \A i \in DOMAIN selectedElements :
            LET q == QueryIndicator(indicators, selectedElements[i].id)
                element == selectedElements[i].element
            IN /\ q # 0
               /\ indicators[q].display = BodyContains(element)
               /\ BodyContains(element) => indicators[q].rect = ViewportRect(element)

\* the indicator lies where its element is now
Fresh(ind) == ind.rect = ViewportRect(ind.target)

AllFresh == \A i \in DOMAIN indicators : Fresh(indicators[i])

NoneFresh == \A i \in DOMAIN indicators : ~Fresh(indicators[i])

\* C18: the repositioning a change signal triggers moves all indicators in one
\* pass: when a scroll of the page reaches indicators that all lay on their
\* elements, its handlers leave either every indicator on its element's new
\* box or (within the throttle window) every indicator on the old one, never
\* one moved and another not.
ScrollMovesAllTogether ==
    [][(scrollY' # scrollY /\ AllFresh /\ attached = Nodes) => (AllFresh' \/ NoneFresh')]_vars

\* C21: no two entries of selectedElements share an id, so the lookup of an
\* indicator by id finds the indicator of exactly that entry.
IdsAreUnique ==
    \A i, j \in DOMAIN selectedElements :
        i # j => selectedElements[i].id # selectedElements[j].id

\* nothing that could still move the spotlight overlay is scheduled
SpotlightQuiescent ==
    /\ highlightScrollHandler.pending = "none"
    /\ \A z \in DOMAIN zombies : z.kind = "spot" => z.pending = "none"
    /\ ~spotRaf
    /\ ~moPending

\* C22: while the spotlight is shown on an attached element, every scroll of
\* the page or of the container is eventually followed by the overlay being
\* laid over the element's current box: once no timer and no frame callback
\* of the spotlight is left, the overlay is on the element.
SpotlightFollowsScroll ==
    (highlightOverlay.display /\ highlightedElement # NoNode
        /\ BodyContains(highlightedElement) /\ SpotlightQuiescent)
      => highlightOverlay.rect = ViewportRect(highlightedElement)

\* C23: while the highlighter is inactive no scroll, resize or mutation signal
\* makes a handler reposition anything: a step that is no call of the
\* interface, taken while isActive is false, leaves every indicator and the
\* spotlight overlay on the box it had.
InactiveMeansNoRepositioning ==
    [][(~isActive /\ ~isActive' /\ Len(indicators') = Len(indicators)
            /\ UNCHANGED <<selectedElements, highlightedElement>>)
          => /\ \A i \in DOMAIN indicators : indicators'[i].rect = indicators[i].rect
             /\ highlightOverlay'.rect = highlightOverlay.rect]_vars

\* C24: Escape pressed while the highlighter is active leaves isActive and
\* isDownloading false; pressed while it is inactive it changes nothing.
EscapeExitsSelectionMode ==
    [][\A o \in Outcomes :
          handleKeyPress("Escape", o) =>
             IF isActive THEN ~isActive' /\ ~isDownloading'
             ELSE UNCHANGED <<pageVars, selVars, closureVars, hlVars>>]_vars

\* Escape has just ended selection mode while elements were selected
EscapedWithSelection ==
    /\ lastCall.op = "key" /\ lastCall.arg = "Escape"
    /\ moPending
    /\ ~isActive
    /\ selectedElements # <<>>

\* C25: C pressed while the highlighter is active and not downloading empties
\* selectedElements, leaves no indicator and leaves the highlighter active;
\* pressed while it is inactive or downloading, it leaves the selection alone.
KeyCClearsOnlyWhenActive ==
    [][\A o \in Outcomes :
          handleKeyPress("c", o) =>
             IF isActive /\ ~isDownloading
             THEN selectedElements' = <<>> /\ indicators' = <<>> /\ isActive'
             ELSE UNCHANGED <<selectedElements, indicators>>]_vars

\* C has just cleared the selection of the active highlighter
ClearedByKey ==
    /\ lastCall.op = "key" /\ lastCall.arg = "c"
    /\ moPending
    /\ isActive
    /\ currentElement # NoNode
    /\ selectedElements = <<>> /\ indicators = <<>>

\* C26: Shift+Click while the highlighter is active and not downloading puts
\* the hovered element into the selection and starts no download; a click
\* while it is inactive, or on the panel or an indicator, changes neither the
\* selection nor the download state.
ShiftClickAddsHovered ==
    [][\A t \in dom \cup {"panel", "indicator"}, c, s \in BOOLEAN, o \in Outcomes :
          handleClick(t, c, s, o) =>
             IF ~isActive \/ t \in {"panel", "indicator"}
             THEN UNCHANGED <<selectedElements, indicators, isDownloading, isActive>>
             ELSE (s /\ ~c /\ ~isDownloading /\ currentElement # NoNode) =>
                     /\ \E i \in DOMAIN selectedElements' :
                           selectedElements'[i].element = currentElement
                     /\ ~isDownloading'
                     /\ isActive']_vars

\* C27: downloadSelectedElements leaves selectedElements and the indicators
\* as they were, whether the file is saved, the download fails or the prompt
\* is cancelled.
ExportLeavesSelection ==
    [][\A o \in Outcomes :
          (handleKeyPress("d", o) /\ isActive /\ ~isDownloading /\ Len(selectedElements) > 0)
             => UNCHANGED <<selectedElements, indicators>>]_vars

\* C30: removeElementFromSelection(index) leaves the closure of the indicator
\* it removes registered on no scroll surface: no closure of an indicator
\* that is still registered on the container is left behind by the call.
RemoveUnregistersEverywhere ==
    [][\A index \in 0..(MaxSelected - 1) :
          (index < Len(selectedElements) /\ removeElementFromSelection(index)) =>
              \A z \in DOMAIN zombies' :
                  (z.kind = "ind" /\ z.onC) => (z \in DOMAIN zombies /\ zombies'[z] = zombies[z])]_vars

\* C28: every scroll event delivered to an indicator's closure while its
\* element is attached is followed by a repositioning by the closure, at once
\* or through its trailing timer: when no timer of the closure is left to
\* fire, no delivered event is still waiting for its repositioning.
EveryScrollEventIsReflected ==
    (indicators # <<>> /\ BodyContains(indicators[1].target) /\ clock.timers = <<>>)
        => ~clock.stale

\* C29: the closure never repositions its indicator twice less than throttleMs
\* apart, and at most one of its trailing timers is pending at any time.
ThrottleSpacesRepositionings ==
    /\ clock.gap >= ThrottleTicks
    /\ Len(clock.timers) <= 1

\* the closure has repositioned twice and its trailing timer is pending
RepositionedTwiceWithTimer ==
    /\ clock.gap <= MaxNow
    /\ Len(clock.timers) = 1
    /\ clock.pendingUpdate

\* C31: every fixed-positioned overlay is given the viewport-relative box of
\* its element, without the root scroll offset: the hover overlay, while it
\* is displayed over an element, has that element's viewport box.
HoverOverlayAtViewportRect ==
    (overlay.display /\ currentElement # NoNode) => overlay.rect = ViewportRect(currentElement)

\* the elements of selectedElements
Tracked == {selectedElements[i].element : i \in DOMAIN selectedElements}

\* C32: with a ResizeObserver, the elements it observes are exactly the
\* elements of selectedElements, after any sequence of add, remove, clear and
\* removals of stale entries by highlightSelectedElement.
ObservedEqualsSelection == roSupported => observed = Tracked

\* highlightSelectedElement has just removed a stale entry and another element stays observed
StaleEntryUnobserved ==
    /\ roSupported
    /\ lastCall.op = "highlight"
    /\ lastCall.ret
    /\ observed # {}

\* C33: whenever the spotlight overlay is displayed, the spotlighted element
\* is an element of selectedElements (removing the spotlighted entry, or
\* clearing the selection, hides the spotlight).
SpotlightedIsSelected == highlightOverlay.display => highlightedElement \in Tracked

\* C34: highlightSelectedElement(index) on an entry whose element is no longer
\* in the document removes that entry and its indicator and leaves the
\* spotlight overlay and its scroll handler as they were; with an index out of
\* range it changes nothing.
StaleSpotlightRemovesEntry ==
    [][\A index \in -1..MaxSelected :
          highlightSelectedElement(index) =>
              IF index < 0 \/ index >= Len(selectedElements)
              THEN UNCHANGED <<selVars, zombies, panel>>
              ELSE ~BodyContains(selectedElements[index + 1].element) =>
                      /\ Listed(selectedElements') = Listed(RemoveAt(selectedElements, index + 1))
                      /\ Len(indicators') = Len(indicators) - 1
                      /\ \A i \in DOMAIN indicators' :
                            indicators'[i].target # selectedElements[index + 1].element
                      /\ UNCHANGED <<highlightOverlay, highlightedElement, highlightScrollHandler>>]_vars

\* C35: whenever no handler is running, isDownloading is false: the cancelled
\* prompt, the failed and the successful download all reset it before the
\* handler returns, so toggling, hovering and clicking are never left disabled.
NoDownloadBetweenHandlers == ~isDownloading

\* a plain click has run the download of the hovered element, which was
\* cancelled or failed, and the highlighter is still active
DownloadAttempted ==
    /\ lastCall.op = "click"
    /\ lastCall.ret
    /\ isActive

\* the handler of a wheel movement goes past its first return and finds a
\* hovered element
WheelHeeded == isActive /\ ~isDownloading /\ currentElement # NoNode

\* the parent of the hovered element, document.body being its own
ParentOrSelf(n) == IF n = "body" THEN n ELSE Parent(n)

\* the indices of the navigable children of the hovered element
NavigableIndices == {k \in DOMAIN Children(currentElement) : Navigable(Children(currentElement)[k])}

\* child number k is the most centred navigable child: none is closer to the
\* centre of the hovered element, and none before it is as close
MostCentred(k) ==
    LET d(j) == CentreDistance(ViewportRect(Children(currentElement)[j]), ViewportRect(currentElement))
    IN /\ k \in NavigableIndices
       /\ \A j \in NavigableIndices : d(k) <= d(j) /\ (j < k => d(k) < d(j))

WheelStateConsistent ==
    /\ Abs(scrollWheelCounter) < scrollThreshold
    /\ currentHierarchy # <<>> =>
          /\ hierarchyIndex >= 0
          /\ hierarchyIndex < Len(currentHierarchy)
          /\ currentElement = currentHierarchy[hierarchyIndex + 1]

\* C37: in every state reached by mouse moves, wheel movements, activation
\* and deactivation, |scrollWheelCounter| < scrollThreshold, and a non-empty
\* currentHierarchy has 0 <= hierarchyIndex < length and holds currentElement
\* at hierarchyIndex; and after a step to the parent, a step to a child
\* selects the element the step to the parent started from.
WheelNavigationIsConsistent ==
    /\ []WheelStateConsistent
    /\ [][(handleMouseWheel(TRUE) /\ currentElement' # currentElement)
             => (WheelStep(0 - scrollThreshold).element)' = currentElement]_vars

\* a step to the parent, body, and a step back to the child have returned to P
ReturnedToStart ==
    /\ lastCall.op = "wheel"
    /\ lastCall.arg = "down"
    /\ lastCall.ret
    /\ currentElement = "P"

\* a Ctrl+Click the handler does not ignore
CtrlClickHeeded(target) ==
    /\ ~moPending
    /\ isActive
    /\ ~isDownloading
    /\ currentElement # NoNode
    /\ target \in dom

\* no entry is the hovered element, one of its descendants or one of its
\* ancestors
NothingSelectedNearby ==
    \A i \in DOMAIN selectedElements :
        /\ ~Contains(currentElement, selectedElements[i].element)
        /\ ~Contains(selectedElements[i].element, currentElement)

\* C38: Ctrl+Click while active removes at most one entry, adds none and
\* starts no download, with or without Shift; if the hovered element is
\* selected its own entry is the one removed; if no entry is the hovered
\* element, one of its descendants or one of its ancestors, the selection is
\* unchanged.
CtrlClickDeselectsNearby ==
    [][\A t \in dom, s \in BOOLEAN, o \in Outcomes :
          (CtrlClickHeeded(t) /\ handleClick(t, TRUE, s, o)) =>
              LET before == Listed(selectedElements)
                  own == ExactMatch(selectedElements, currentElement)
              IN /\ isDownloading' = isDownloading
                 /\ \/ Listed(selectedElements') = before
                    \/ \E i \in DOMAIN before :
                          Listed(selectedElements') = RemoveAt(before, i)
                 /\ own # -1 => Listed(selectedElements') = RemoveAt(before, own + 1)
                 /\ NothingSelectedNearby => Listed(selectedElements') = before]_vars

\* C39: after every operation the selection panel is visible whenever
\* selectedElements is not empty, it lists exactly the selected elements in
\* order, and it is hidden whenever the highlighter is inactive and
\* selectedElements is empty.
PanelMirrorsSelection ==
    /\ Len(selectedElements) > 0 => panel.display
    /\ panel.items = Listed(selectedElements)
    /\ (~isActive /\ selectedElements = <<>>) => ~panel.display

====
